---- MODULE Spec2Model ----
(***************************************************************************)
(* Call transcript analyzer: the request boundary (src/api/routes.py), the *)
(* three-node workflow (src/backend/orchestrator.py) and the CSV log       *)
(* (src/backend/data_manager.py).                                          *)
(*                                                                         *)
(* A Python str is a sequence of one-character strings; a Python dict is a *)
(* function whose DOMAIN is the set of its keys.  The log file is the text *)
(* the csv module writes, character by character.                          *)
(***************************************************************************)
EXTENDS Integers, Sequences, FiniteSets, TLC

\* ------------------------------------------------------------------ bounds

\* Concurrent request handlers (threads or worker processes of the API).
NumProcs == 2
\* Requests received in one behaviour, over all handlers.
MaxRequests == 2
\* Longest run of whitespace put before and after a transcript's text.
MaxPad == 1
\* Direct save_to_csv calls in one behaviour of SpecCsv.
MaxAppends == 3
\* Requests the server takes in the specification with fairness.
MaxRuns == 1

\* routes.py:34  len(request.transcript.strip()) < 10
MinLength == 10

Procs == 1..NumProcs

\* ------------------------------------------------------------------ strings

\* A character of a str is written as itself up to U+00FF and as its Python
\* escape above, a string that stands for the one character: "\\u" and four
\* hexadecimal digits up to U+FFFF (lone surrogates included), "\\U" and
\* eight above.  U+1680 is written either way.

\* Python's whitespace, the characters c with c.isspace(), which str.strip()
\* removes.
\* ASCII: space, HT, LF, CR, FF, VT (0x0b), FS, GS, RS, US (0x1c-0x1f).
AsciiWhitespace == {" ", "\t", "\n", "\r", "\f", "", "", "", "", ""}
\* Two bytes in UTF-8: NEL (0x85), NBSP (0xa0).
Latin1Whitespace == {"", " "}
\* Three bytes in UTF-8: U+1680 (as itself and as its escape), U+2000-200A,
\* U+2028, U+2029, U+202F, U+205F, U+3000, each with its code point.
WideCode ==
    (" " :> 5760) @@
    ("\\u1680" :> 5760) @@
    ("\\u2000" :> 8192) @@
    ("\\u2001" :> 8193) @@
    ("\\u2002" :> 8194) @@
    ("\\u2003" :> 8195) @@
    ("\\u2004" :> 8196) @@
    ("\\u2005" :> 8197) @@
    ("\\u2006" :> 8198) @@
    ("\\u2007" :> 8199) @@
    ("\\u2008" :> 8200) @@
    ("\\u2009" :> 8201) @@
    ("\\u200a" :> 8202) @@
    ("\\u2028" :> 8232) @@
    ("\\u2029" :> 8233) @@
    ("\\u202f" :> 8239) @@
    ("\\u205f" :> 8287) @@
    ("\\u3000" :> 12288)
WideWhitespace == DOMAIN WideCode
Whitespace == AsciiWhitespace \cup Latin1Whitespace \cup WideWhitespace

\* A lone surrogate, a character of a str that UTF-8 cannot encode.
Surrogate == "\\ud800"

\* c is the escape of a character above U+00FF.
Escaped(c) == Len(c) \in {6, 10} /\ SubSeq(c, 1, 2) \in {"\\u", "\\U"}

\* int(s, 16) for a string of hexadecimal digits.
HexDigits == <<"0", "1", "2", "3", "4", "5", "6", "7", "8", "9", "a", "b", "c", "d", "e", "f">>
RECURSIVE HexValue(_)
HexValue(s) ==
    IF Len(s) = 0 THEN 0
    ELSE 16 * HexValue(SubSeq(s, 1, Len(s) - 1))
         + (CHOOSE v \in 0..15 : HexDigits[v + 1] = SubSeq(s, Len(s), Len(s)))

\* The characters U+0080 to U+00FF, in the order of their code points.
Latin1 ==
    <<
       "", "", "", "", "", "", "", "", "", "", "", "", "", "", "", "",
       "", "", "", "", "", "", "", "", "", "", "", "", "", "", "", "",
       " ", "¡", "¢", "£", "¤", "¥", "¦", "§", "¨", "©", "ª", "«", "¬", "­", "®", "¯",
       "°", "±", "²", "³", "´", "µ", "¶", "·", "¸", "¹", "º", "»", "¼", "½", "¾", "¿",
       "À", "Á", "Â", "Ã", "Ä", "Å", "Æ", "Ç", "È", "É", "Ê", "Ë", "Ì", "Í", "Î", "Ï",
       "Ð", "Ñ", "Ò", "Ó", "Ô", "Õ", "Ö", "×", "Ø", "Ù", "Ú", "Û", "Ü", "Ý", "Þ", "ß",
       "à", "á", "â", "ã", "ä", "å", "æ", "ç", "è", "é", "ê", "ë", "ì", "í", "î", "ï",
       "ð", "ñ", "ò", "ó", "ô", "õ", "ö", "÷", "ø", "ù", "ú", "û", "ü", "ý", "þ", "ÿ"
    >>

\* The characters outside ASCII that are written as themselves or have their
\* code point in WideCode, and ord(c) for a character outside ASCII.
NonAscii == {Latin1[i] : i \in 1..Len(Latin1)} \cup WideWhitespace
ord(c) ==
    IF c \in WideWhitespace THEN WideCode[c]
    ELSE IF c \in NonAscii THEN 127 + (CHOOSE i \in 1..Len(Latin1) : Latin1[i] = c)
    ELSE HexValue(SubSeq(c, 3, Len(c)))

\* c is an ASCII character, or a byte of the file.
OneByte(c) == c \notin NonAscii /\ ~Escaped(c)

\* c is a lone surrogate, U+D800 to U+DFFF.
IsSurrogate(c) == Escaped(c) /\ ord(c) \in 55296..57343

\* The bytes 0x80 to 0xff, each written as Python writes it.  A byte below
\* 0x80 is written as the ASCII character it encodes.
Bytes ==
    <<
       "b'\\x80'", "b'\\x81'", "b'\\x82'", "b'\\x83'", "b'\\x84'", "b'\\x85'", "b'\\x86'", "b'\\x87'",
       "b'\\x88'", "b'\\x89'", "b'\\x8a'", "b'\\x8b'", "b'\\x8c'", "b'\\x8d'", "b'\\x8e'", "b'\\x8f'",
       "b'\\x90'", "b'\\x91'", "b'\\x92'", "b'\\x93'", "b'\\x94'", "b'\\x95'", "b'\\x96'", "b'\\x97'",
       "b'\\x98'", "b'\\x99'", "b'\\x9a'", "b'\\x9b'", "b'\\x9c'", "b'\\x9d'", "b'\\x9e'", "b'\\x9f'",
       "b'\\xa0'", "b'\\xa1'", "b'\\xa2'", "b'\\xa3'", "b'\\xa4'", "b'\\xa5'", "b'\\xa6'", "b'\\xa7'",
       "b'\\xa8'", "b'\\xa9'", "b'\\xaa'", "b'\\xab'", "b'\\xac'", "b'\\xad'", "b'\\xae'", "b'\\xaf'",
       "b'\\xb0'", "b'\\xb1'", "b'\\xb2'", "b'\\xb3'", "b'\\xb4'", "b'\\xb5'", "b'\\xb6'", "b'\\xb7'",
       "b'\\xb8'", "b'\\xb9'", "b'\\xba'", "b'\\xbb'", "b'\\xbc'", "b'\\xbd'", "b'\\xbe'", "b'\\xbf'",
       "b'\\xc0'", "b'\\xc1'", "b'\\xc2'", "b'\\xc3'", "b'\\xc4'", "b'\\xc5'", "b'\\xc6'", "b'\\xc7'",
       "b'\\xc8'", "b'\\xc9'", "b'\\xca'", "b'\\xcb'", "b'\\xcc'", "b'\\xcd'", "b'\\xce'", "b'\\xcf'",
       "b'\\xd0'", "b'\\xd1'", "b'\\xd2'", "b'\\xd3'", "b'\\xd4'", "b'\\xd5'", "b'\\xd6'", "b'\\xd7'",
       "b'\\xd8'", "b'\\xd9'", "b'\\xda'", "b'\\xdb'", "b'\\xdc'", "b'\\xdd'", "b'\\xde'", "b'\\xdf'",
       "b'\\xe0'", "b'\\xe1'", "b'\\xe2'", "b'\\xe3'", "b'\\xe4'", "b'\\xe5'", "b'\\xe6'", "b'\\xe7'",
       "b'\\xe8'", "b'\\xe9'", "b'\\xea'", "b'\\xeb'", "b'\\xec'", "b'\\xed'", "b'\\xee'", "b'\\xef'",
       "b'\\xf0'", "b'\\xf1'", "b'\\xf2'", "b'\\xf3'", "b'\\xf4'", "b'\\xf5'", "b'\\xf6'", "b'\\xf7'",
       "b'\\xf8'", "b'\\xf9'", "b'\\xfa'", "b'\\xfb'", "b'\\xfc'", "b'\\xfd'", "b'\\xfe'", "b'\\xff'"
    >>
Byte(n) == Bytes[n - 127]

\* F of the value of x, with x evaluated once.
Bind(x, F(_)) == CHOOSE y \in {F(v) : v \in {x}} : TRUE

\* c.encode('utf-8') for a character that is not a lone surrogate: one byte
\* for ASCII, two below U+0800, three below U+10000, else four.
Utf8(c) ==
    IF OneByte(c) THEN <<c>>
    ELSE Bind(ord(c), LAMBDA n :
            IF n < 2048 THEN <<Byte(192 + (n \div 64)), Byte(128 + (n % 64))>>
            ELSE IF n < 65536
            THEN <<Byte(224 + (n \div 4096)), Byte(128 + ((n \div 64) % 64)), Byte(128 + (n % 64))>>
            ELSE <<Byte(240 + (n \div 262144)), Byte(128 + ((n \div 4096) % 64)),
                   Byte(128 + ((n \div 64) % 64)), Byte(128 + (n % 64))>>)

\* The bytes of one character in UTF-8; 1 for a byte.
Utf8Len(c) == IF OneByte(c) THEN 1 ELSE Len(Utf8(c))

\* len(s.encode('utf-8')): a byte for every character, and for the characters
\* outside ASCII a second one, a third for those of three bytes or more and a
\* fourth for those of four.
Utf8Size(s) ==
    Bind(s, LAMBDA t : Bind({i \in 1..Len(t) : ~OneByte(t[i])}, LAMBDA wide :
        Len(t) + Cardinality(wide)
               + Cardinality({i \in wide : Utf8Len(t[i]) >= 3})
               + Cardinality({i \in wide : Utf8Len(t[i]) >= 4})))

RECURSIVE lstrip(_)
lstrip(s) == IF s # <<>> /\ Head(s) \in Whitespace THEN lstrip(Tail(s)) ELSE s

RECURSIVE rstrip(_)
rstrip(s) ==
    IF s # <<>> /\ s[Len(s)] \in Whitespace THEN rstrip(SubSeq(s, 1, Len(s) - 1)) ELSE s

\* str.strip(): leading and trailing whitespace removed, inner whitespace kept.
strip(s) == rstrip(lstrip(s))

\* The text the submitted transcripts are cut from, MinLength characters with
\* inner whitespace, a quoted word and a comma.
SampleText == <<"n", "o", " ", "\"", "n", "e", "t", "\"", ",", "2">>

\* Lengths of the text inside the padding: none, one short of MinLength, and
\* MinLength.
CoreLengths == {0, MinLength - 1, MinLength}

\* Whitespace put before and after a transcript's text: the first i characters
\* of a form feed, a space, ... and of a line feed, a no-break space, ...
PadChars == << <<"\f", "\n">>, <<" ", " ">>, <<"", "\\u2028">>, <<"\t", "\r">> >>
LeftPad(i) == [j \in 1..i |-> PadChars[((j - 1) % Len(PadChars)) + 1][1]]
RightPad(i) == [j \in 1..i |-> PadChars[((j - 1) % Len(PadChars)) + 1][2]]

\* request.transcript: the sample text cut to a core length, with i whitespace
\* characters before it and i after it.  This covers "", whitespace-only
\* strings, texts whose stripped length is one short of MinLength (the padded
\* ones are longer than MinLength unstripped) and texts at it.
Transcripts ==
    { LeftPad(i) \o SubSeq(SampleText, 1, k) \o RightPad(i) :
        i \in 0..MaxPad, k \in CoreLengths }

\* What the structured inference call can answer: pydantic's `str` field
\* admits any string, the empty one included (tried for the summary).
LLMSummaries == { <<>>, <<"F", "i", "x", ",", " ", "\"", "o", "k", "\"">> }
LLMSentiments == { <<"A", "n", "g", "r", "y">> }

SummaryFallback ==
    <<"E", "r", "r", "o", "r", " ", "g", "e", "n", "e", "r", "a", "t", "i", "n", "g",
      " ", "s", "u", "m", "m", "a", "r", "y">>
SentimentFallback == <<"N", "e", "u", "t", "r", "a", "l">>
WorkflowFallback ==
    <<"E", "r", "r", "o", "r", " ", "p", "r", "o", "c", "e", "s", "s", "i", "n", "g",
      " ", "t", "r", "a", "n", "s", "c", "r", "i", "p", "t">>
Failed == <<"f", "a", "i", "l", "e", "d">>

\* ------------------------------------------------------------------ dicts

EmptyDict == [k \in {} |-> <<>>]

\* dict.get(key, default)
DictGet(d, k, default) == IF k \in DOMAIN d THEN d[k] ELSE default

\* Merge that keeps the transcript only of the keys a node does not return.
Merge_reset(st, upd) ==
    [k \in DOMAIN st |-> IF k \in DOMAIN upd THEN upd[k]
                         ELSE IF k = "transcript" THEN st[k] ELSE <<>>]

\* LangGraph's state update: the keys a node returns replace the state's.
Merge(st, upd) == [k \in DOMAIN st |-> IF k \in DOMAIN upd THEN upd[k] ELSE st[k]]

\* ------------------------------------------------------------------ csv text

\* DataManager.fieldnames
fieldnames ==
    << <<"T", "r", "a", "n", "s", "c", "r", "i", "p", "t">>,
       <<"S", "u", "m", "m", "a", "r", "y">>,
       <<"S", "e", "n", "t", "i", "m", "e", "n", "t">> >>

\* csv.excel: delimiter ',', quotechar '"', doublequote, lineterminator '\r\n'.
Delimiter == ","
QuoteChar == "\""
LineTerminator == <<"\r", "\n">>

\* QUOTE_MINIMAL: a field is quoted when it holds the delimiter, the quote
\* character or a character of the line terminator.
NeedsQuote(f) == \E i \in 1..Len(f) : f[i] \in {Delimiter, QuoteChar, "\r", "\n"}

RECURSIVE DoubleQuotes(_)
DoubleQuotes(f) ==
    IF f = <<>> THEN <<>>
    ELSE (IF Head(f) = QuoteChar THEN <<QuoteChar, QuoteChar>> ELSE <<Head(f)>>)
         \o DoubleQuotes(Tail(f))

FormatField(f) ==
    IF NeedsQuote(f) THEN <<QuoteChar>> \o DoubleQuotes(f) \o <<QuoteChar>> ELSE f

RECURSIVE JoinFields(_)
JoinFields(fs) ==
    IF fs = <<>> THEN <<>>
    ELSE IF Len(fs) = 1 THEN FormatField(fs[1])
    ELSE FormatField(Head(fs)) \o <<Delimiter>> \o JoinFields(Tail(fs))

\* csv.writer.writerow: the fields joined, then the line terminator.
writerow(fields) == JoinFields(fields) \o LineTerminator

\* DictWriter.writeheader
writeheader == writerow(fieldnames)

\* A CSV reader (csv.reader with the excel dialect) as a state machine over
\* the characters of a text: a quoted field may hold delimiters, doubled
\* quotes and line breaks; a record ends at "\r\n", "\n" or "\r"; an empty
\* line is a record with no field.
ReaderStart == [st |-> "start_record", f |-> <<>>, row |-> <<>>, rows |-> <<>>]

\* The reader after the end of a record r, at the line break c.
EndRecord(r, c, rd) ==
    [st |-> IF c = "\r" THEN "eat_lf" ELSE "start_record",
     f |-> <<>>, row |-> <<>>, rows |-> Append(rd.rows, r)]

\* The reader at the start of a field (st is "start_field"), reading c.
StartField(rd, c) ==
    IF c \in {"\r", "\n"} THEN EndRecord(Append(rd.row, <<>>), c, rd)
    ELSE IF c = QuoteChar THEN [rd EXCEPT !.st = "in_quoted", !.f = <<>>]
    ELSE IF c = Delimiter THEN [rd EXCEPT !.st = "start_field", !.f = <<>>, !.row = Append(@, <<>>)]
    ELSE [rd EXCEPT !.st = "in_field", !.f = <<c>>]

\* The reader at the start of a record, reading c.
StartRecord(rd, c) ==
    IF c \in {"\r", "\n"} THEN EndRecord(<<>>, c, rd)
    ELSE StartField([rd EXCEPT !.st = "start_field"], c)

ReadChar(rd, c) ==
    CASE rd.st = "eat_lf" ->
           IF c = "\n" THEN [rd EXCEPT !.st = "start_record"] ELSE StartRecord(rd, c)
      [] rd.st = "start_record" -> StartRecord(rd, c)
      [] rd.st = "start_field" -> StartField(rd, c)
      [] rd.st = "in_field" ->
           IF c \in {"\r", "\n"} THEN EndRecord(Append(rd.row, rd.f), c, rd)
           ELSE IF c = Delimiter
                THEN [rd EXCEPT !.st = "start_field", !.f = <<>>, !.row = Append(@, rd.f)]
           ELSE [rd EXCEPT !.f = Append(@, c)]
      [] rd.st = "in_quoted" ->
           IF c = QuoteChar THEN [rd EXCEPT !.st = "quote_in_quoted"]
           ELSE [rd EXCEPT !.f = Append(@, c)]
      [] rd.st = "quote_in_quoted" ->
           IF c = QuoteChar THEN [rd EXCEPT !.st = "in_quoted", !.f = Append(@, c)]
           ELSE IF c = Delimiter
                THEN [rd EXCEPT !.st = "start_field", !.f = <<>>, !.row = Append(@, rd.f)]
           ELSE IF c \in {"\r", "\n"} THEN EndRecord(Append(rd.row, rd.f), c, rd)
           ELSE [rd EXCEPT !.st = "in_field", !.f = Append(@, c)]

\* The reader after the characters lo..hi of t, read in order.  The range is
\* halved, and the reader after the first half is computed before the second
\* half is read, so that the evaluation does not nest once per character.
RECURSIVE ReadRange(_, _, _, _)
ReadRange(t, lo, hi, rd) ==
    IF lo > hi THEN rd
    ELSE IF lo = hi THEN ReadChar(rd, t[lo])
    ELSE LET mid == (lo + hi) \div 2
         IN CHOOSE out \in { ReadRange(t, mid + 1, hi, left) :
                             left \in {ReadRange(t, lo, mid, rd)} } : TRUE

\* The rows of a text; a last record without a line break counts.
CsvRows(text) ==
    LET rd == ReadRange(text, 1, Len(text), ReaderStart)
    IN IF rd.st \in {"start_record", "eat_lf"} THEN rd.rows
       ELSE Append(rd.rows, Append(rd.row, rd.f))

\* ------------------------------------------------------------------ state

VARIABLES
    pc,           \* [Procs -> control point of the handler]
    request,      \* [Procs -> request.transcript]
    reqid,        \* [Procs -> number of the invocation the handler is serving]
    state,        \* [Procs -> WorkflowState of the running workflow, or {}]
    calls,        \* [Procs -> inference calls (chain.invoke) issued by the invocation]
    data,         \* [Procs -> the dict handed to save_to_csv, or {}]
    file_exists,  \* [Procs -> save_to_csv's local file_exists]
    buffer_size,  \* [Procs -> buffer size of the file object save_to_csv holds, 0 for none]
    success,      \* [Procs -> what save_to_csv returned]
    result,       \* [Procs -> the dict analyze_transcript returned, or {}]
    response,     \* [Procs -> the HTTP response of the handler]
    applog,       \* [Procs -> the logger lines of the invocation, in order]
    fs,           \* call_analysis.csv: whether it exists, and its text
    saved,        \* the save_to_csv calls that returned, in order of return
    nreq          \* invocations started so far

vars == <<pc, request, reqid, state, calls, data, file_exists, buffer_size, success, result,
          response, applog, fs, saved, nreq>>

NoResponse == [status |-> 0]

\* What a handler's locals are when an invocation starts.
Fresh(p, t) ==
    /\ request' = [request EXCEPT ![p] = t]
    /\ reqid' = [reqid EXCEPT ![p] = nreq + 1]
    /\ nreq' = nreq + 1
    /\ state' = [state EXCEPT ![p] = EmptyDict]
    /\ calls' = [calls EXCEPT ![p] = 0]
    /\ file_exists' = [file_exists EXCEPT ![p] = FALSE]
    /\ buffer_size' = [buffer_size EXCEPT ![p] = 0]
    /\ success' = [success EXCEPT ![p] = FALSE]
    /\ result' = [result EXCEPT ![p] = EmptyDict]

Log(p, lines) == applog' = [applog EXCEPT ![p] = @ \o lines]

Init ==
    /\ pc = [p \in Procs |-> "idle"]
    /\ request = [p \in Procs |-> <<>>]
    /\ reqid = [p \in Procs |-> 0]
    /\ state = [p \in Procs |-> EmptyDict]
    /\ calls = [p \in Procs |-> 0]
    /\ data = [p \in Procs |-> EmptyDict]
    /\ file_exists = [p \in Procs |-> FALSE]
    /\ buffer_size = [p \in Procs |-> 0]
    /\ success = [p \in Procs |-> FALSE]
    /\ result = [p \in Procs |-> EmptyDict]
    /\ response = [p \in Procs |-> NoResponse]
    /\ applog = [p \in Procs |-> <<>>]
    /\ fs = [exists |-> FALSE, text |-> <<>>]
    /\ saved = <<>>
    /\ nreq = 0

\* ------------------------------------------------------------------ request boundary

\* ValidationError with the length check made on the untrimmed transcript.
ValidationError_nostrip(t) ==
    IF strip(t) = <<>> THEN "Transcript cannot be empty"
    ELSE IF Len(t) < MinLength THEN "Transcript too short for meaningful analysis"
    ELSE ""

\* routes.py: the two checks before the analyzer is created; "" when both pass.
ValidationError(t) ==
    IF strip(t) = <<>> THEN "Transcript cannot be empty"
    ELSE IF Len(strip(t)) < MinLength THEN "Transcript too short for meaningful analysis"
    ELSE ""

Ready(p) == pc[p] \in {"idle", "responded"} /\ nreq < MaxRequests

\* POST /analyze-transcript with a transcript the validation rejects: HTTP 400.
api_reject(p) ==
    /\ Ready(p)
    /\ \E t \in Transcripts :
         /\ ValidationError(t) # ""
         /\ Fresh(p, t)
         /\ response' = [response EXCEPT ![p] = [status |-> 400, detail |-> ValidationError(t)]]
    /\ data' = [data EXCEPT ![p] = EmptyDict]
    /\ applog' = [applog EXCEPT ![p] = <<"api_requested">>]
    /\ pc' = [pc EXCEPT ![p] = "responded"]
    /\ UNCHANGED <<fs, saved>>

\* str(e) of the exception CallTranscriptAnalyzer() raises: an empty message,
\* or the one of a missing API key.
InitErrors == {"", "The api_key client option must be set"}

\* A valid transcript, and CallTranscriptAnalyzer() raises (no API key, say):
\* the handler's `except Exception` answers HTTP 500 with the exception's text.
api_init_error(p) ==
    /\ Ready(p)
    /\ \E t \in Transcripts :
         /\ ValidationError(t) = ""
         /\ Fresh(p, t)
    /\ \E e \in InitErrors :
         response' = [response EXCEPT
                        ![p] = [status |-> 500, detail |-> "Internal server error: " \o e]]
    /\ data' = [data EXCEPT ![p] = EmptyDict]
    /\ applog' = [applog EXCEPT ![p] = <<"api_requested", "api_error">>]
    /\ pc' = [pc EXCEPT ![p] = "responded"]
    /\ UNCHANGED <<fs, saved>>

\* A valid transcript: the analyzer is created and analyze_transcript is called.
api_accept(p) ==
    /\ Ready(p)
    /\ \E t \in Transcripts :
         /\ ValidationError(t) = ""
         /\ Fresh(p, t)
    /\ response' = [response EXCEPT ![p] = NoResponse]
    /\ data' = [data EXCEPT ![p] = EmptyDict]
    /\ applog' = [applog EXCEPT ![p] = <<"api_requested", "analyzer_init">>]
    /\ pc' = [pc EXCEPT ![p] = "build"]
    /\ UNCHANGED <<fs, saved>>

\* routes.py: the check of the result, then the response.
api_response(res) ==
    IF "status" \in DOMAIN res /\ res["status"] = Failed
    THEN [status |-> 500, detail |-> "Analysis failed"]
    ELSE [status |-> 200, transcript |-> res["transcript"], summary |-> res["summary"],
          sentiment |-> res["sentiment"], success |-> TRUE]

api_respond(p) ==
    /\ pc[p] = "returned"
    /\ response' = [response EXCEPT ![p] = api_response(result[p])]
    /\ Log(p, IF api_response(result[p]).status = 200 THEN <<"api_completed">> ELSE <<>>)
    /\ pc' = [pc EXCEPT ![p] = "responded"]
    /\ UNCHANGED <<request, reqid, state, calls, data, file_exists, buffer_size, success, result,
                   fs, saved, nreq>>

\* ------------------------------------------------------------------ workflow

\* Edge with the edge out of "summarize" drawn to "save_results".
Edge_skip(n) ==
    CASE n = "START" -> "summarize"
      [] n = "summarize" -> "save_results"
      [] n = "analyze_sentiment" -> "save_results"
      [] n = "save_results" -> "END"

\* analyze_transcript: graph.add_edge(...), the linear workflow.
Edge(n) ==
    CASE n = "START" -> "summarize"
      [] n = "summarize" -> "analyze_sentiment"
      [] n = "analyze_sentiment" -> "save_results"
      [] n = "save_results" -> "END"

initial_state(t) == [transcript |-> t, summary |-> <<>>, sentiment |-> <<>>]

\* What chain.invoke does: it answers with an object that has the field, or
\* with None (the reply of the model had no tool call for the output parser
\* to read), or it raises (network, authentication, a response that does not
\* fit the schema).  `ok` is that it returned, `none` that it returned None.
Inference(values) ==
    { [ok |-> TRUE, none |-> FALSE, value |-> v] : v \in values }
    \cup { [ok |-> TRUE, none |-> TRUE, value |-> <<>>], [ok |-> FALSE, none |-> FALSE, value |-> <<>>] }

\* result.summary, result.sentiment can be read.
HasField(o) == o.ok /\ ~o.none

\* summary_update without the fallback of the `except`.
summary_update_nofallback(o) == [summary |-> o.value]

\* summary_node's return value, for an outcome of its inference call.
summary_update(o) ==
    IF HasField(o) THEN [summary |-> o.value] ELSE [summary |-> SummaryFallback]

\* The lines summary_node logs: 'Summary generated successfully' as soon as
\* chain.invoke has returned, before result.summary is read, and 'Error in
\* summary_node' from the `except`.
summary_log(o) ==
    (IF o.ok THEN <<"summary_ok">> ELSE <<>>) \o (IF HasField(o) THEN <<>> ELSE <<"summary_error">>)

\* sentiment_node's return value, for an outcome of its inference call.
sentiment_update(o) ==
    IF HasField(o) THEN [sentiment |-> o.value] ELSE [sentiment |-> SentimentFallback]

\* The line sentiment_node logs: 'Sentiment analyzed: ...' reads
\* result.sentiment to build its text, so nothing is logged when the read
\* raises.
sentiment_log(o) == IF HasField(o) THEN <<"sentiment_ok">> ELSE <<"sentiment_error">>

\* The record of the top-level `except`.
degraded(t) == [transcript |-> t, summary |-> WorkflowFallback, sentiment |-> SentimentFallback]

\* The record of the normal return, read from final_state.
workflow_result(final_state) ==
    [transcript |-> final_state["transcript"], summary |-> final_state["summary"],
     sentiment |-> final_state["sentiment"]]

\* Where in the `try` of analyze_transcript an unexpected exception can be
\* raised: while the graph is built and compiled, and inside workflow.invoke
\* or after it, between two nodes (the nodes themselves catch everything).
FaultPoints == {"build", "summarize", "analyze_sentiment", "save_results", "END"}

\* The graph is built and compiled, the initial state made, the workflow started.
build_graph(p) ==
    /\ pc[p] = "build"
    /\ state' = [state EXCEPT ![p] = initial_state(request[p])]
    /\ Log(p, <<"workflow_start">>)
    /\ pc' = [pc EXCEPT ![p] = Edge("START")]
    /\ UNCHANGED <<request, reqid, calls, data, file_exists, buffer_size, success, result, response,
                   fs, saved, nreq>>

summary_node(p) ==
    /\ pc[p] = "summarize"
    /\ \E o \in Inference(LLMSummaries) :
         /\ state' = [state EXCEPT ![p] = Merge(@, summary_update(o))]
         /\ Log(p, summary_log(o))
    /\ calls' = [calls EXCEPT ![p] = @ + 1]
    /\ pc' = [pc EXCEPT ![p] = Edge("summarize")]
    /\ UNCHANGED <<request, reqid, data, file_exists, buffer_size, success, result, response,
                   fs, saved, nreq>>

sentiment_node(p) ==
    /\ pc[p] = "analyze_sentiment"
    /\ \E o \in Inference(LLMSentiments) :
         /\ state' = [state EXCEPT ![p] = Merge(@, sentiment_update(o))]
         /\ Log(p, sentiment_log(o))
    /\ calls' = [calls EXCEPT ![p] = @ + 1]
    /\ pc' = [pc EXCEPT ![p] = Edge("analyze_sentiment")]
    /\ UNCHANGED <<request, reqid, data, file_exists, buffer_size, success, result, response,
                   fs, saved, nreq>>

\* The dict save_node hands to save_to_csv.
save_node_data(st) ==
    [transcript |-> st["transcript"], summary |-> st["summary"], sentiment |-> st["sentiment"]]

\* save_node up to its call of save_to_csv.
save_node(p) ==
    /\ pc[p] = "save_results"
    /\ data' = [data EXCEPT ![p] = save_node_data(state[p])]
    /\ pc' = [pc EXCEPT ![p] = "isfile"]
    /\ UNCHANGED <<request, reqid, state, calls, file_exists, buffer_size, success, result, response,
                   applog, fs, saved, nreq>>

\* save_node after save_to_csv returned: it logs, and returns {}.
save_node_return(p) ==
    /\ pc[p] = "sv_return"
    /\ state[p] # EmptyDict
    /\ state' = [state EXCEPT ![p] = Merge(@, EmptyDict)]
    /\ Log(p, IF success[p] THEN <<"save_ok">> ELSE <<"save_failed">>)
    /\ pc' = [pc EXCEPT ![p] = Edge("save_results")]
    /\ UNCHANGED <<request, reqid, calls, data, file_exists, buffer_size, success, result, response,
                   fs, saved, nreq>>

\* workflow.invoke returned: analyze_transcript returns the final state's fields.
workflow_return(p) ==
    /\ pc[p] = "END"
    /\ result' = [result EXCEPT ![p] = workflow_result(state[p])]
    /\ Log(p, <<"workflow_completed">>)
    /\ pc' = [pc EXCEPT ![p] = "returned"]
    /\ UNCHANGED <<request, reqid, state, calls, data, file_exists, buffer_size, success, response,
                   fs, saved, nreq>>

\* workflow_error whose `except` also saves the degraded record.
workflow_error_saves(p) ==
    /\ pc[p] \in FaultPoints
    /\ result' = [result EXCEPT ![p] = degraded(request[p])]
    /\ Log(p, <<"workflow_failed">>)
    /\ fs' = [exists |-> TRUE,
              text |-> fs.text \o (IF fs.exists THEN <<>> ELSE writeheader)
                       \o writerow(<<request[p], WorkflowFallback, SentimentFallback>>)]
    /\ saved' = Append(saved, [req |-> reqid[p], data |-> degraded(request[p]), ok |-> TRUE])
    /\ pc' = [pc EXCEPT ![p] = "returned"]
    /\ UNCHANGED <<request, reqid, state, calls, data, file_exists, buffer_size, success, response, nreq>>

\* workflow_error whose `except` logs and raises the exception again.
workflow_error_reraise(p) ==
    /\ pc[p] \in FaultPoints
    /\ Log(p, <<"workflow_failed">>)
    /\ pc' = [pc EXCEPT ![p] = "raised"]
    /\ UNCHANGED <<request, reqid, state, calls, data, file_exists, buffer_size, success, result,
                   response, fs, saved, nreq>>

\* An unexpected exception in the `try`: the top-level `except` returns the
\* degraded record.
workflow_error(p) ==
    /\ pc[p] \in FaultPoints
    /\ result' = [result EXCEPT ![p] = degraded(request[p])]
    /\ Log(p, <<"workflow_failed">>)
    /\ pc' = [pc EXCEPT ![p] = "returned"]
    /\ UNCHANGED <<request, reqid, state, calls, data, file_exists, buffer_size, success, response,
                   fs, saved, nreq>>

\* ------------------------------------------------------------------ csv log

\* 'Transcript' <- data['transcript'], and so on.
DataKey(field) ==
    CASE field = fieldnames[1] -> "transcript"
      [] field = fieldnames[2] -> "summary"
      [] field = fieldnames[3] -> "sentiment"

\* save_to_csv's csv_data: the three columns, '' for a key data lacks.
csv_data(d) ==
    [f \in {fieldnames[i] : i \in 1..Len(fieldnames)} |-> DictGet(d, DataKey(f), <<>>)]

\* DictWriter._dict_to_list: the row's values in the order of fieldnames.
dict_to_list(rowdict) == [i \in 1..Len(fieldnames) |-> DictGet(rowdict, fieldnames[i], <<>>)]

\* header that is written on every call.
header_always(existed) == writeheader

\* What a save_to_csv call hands to the file object before the data row: the
\* header when the file did not exist at the isfile check.
header(existed) == IF ~existed THEN writeheader ELSE <<>>

Returned(p, ok) == saved' = Append(saved, [req |-> reqid[p], data |-> data[p], ok |-> ok])

\* Sizes of the BufferedWriter's buffer: open() takes the block size the file
\* system reports for the file (st_blksize), and io.DEFAULT_BUFFER_SIZE
\* (8192) when it reports none.
BufferSizes == {4096, 8192, 65536}

\* file_exists = os.path.isfile(self.csv_filename)
isfile(p) ==
    /\ pc[p] = "isfile"
    /\ file_exists' = [file_exists EXCEPT ![p] = fs.exists]
    /\ pc' = [pc EXCEPT ![p] = "open"]
    /\ UNCHANGED <<request, reqid, state, calls, data, buffer_size, success, result, response,
                   applog, fs, saved, nreq>>

\* open_error without the `except` of save_to_csv and of save_node: the
\* exception reaches the top-level handler of analyze_transcript.
open_error_raise(p) ==
    /\ pc[p] = "open"
    /\ result' = [result EXCEPT ![p] = degraded(request[p])]
    /\ Log(p, <<"csv_error", "workflow_failed">>)
    /\ pc' = [pc EXCEPT ![p] = "returned"]
    /\ UNCHANGED <<request, reqid, state, calls, data, file_exists, buffer_size, success, response,
                   fs, saved, nreq>>

\* open raises (permission denied, a missing directory): `except` returns False.
open_error(p) ==
    /\ pc[p] = "open"
    /\ success' = [success EXCEPT ![p] = FALSE]
    /\ Returned(p, FALSE)
    /\ Log(p, <<"csv_error">>)
    /\ pc' = [pc EXCEPT ![p] = "sv_return"]
    /\ UNCHANGED <<request, reqid, state, calls, data, file_exists, buffer_size, result, response,
                   fs, nreq>>

\* TextIOWrapper's chunk size: the text it holds back at most before it
\* hands it to the buffer below.
ChunkSize == 8192

\* The text of the data row, as writerow hands it to the file object.
row(d) == writerow(dict_to_list(csv_data(d)))

\* str.encode('utf-8') succeeds: the text has no lone surrogate.
Encodable(text) == \A t \in {text} : \A i \in 1..Len(t) : ~IsSurrogate(t[i])

\* BufferedWriter.write(text) on a buffer of B bytes that holds `held`.  Text
\* that fits is kept.  Otherwise what is held is written out, and the text
\* is written out too when it is larger than the buffer, kept when not.
\* `out` are the texts of the write() system calls made, in order.
BufferedWrite(held, text, B) ==
    LET write[h \in {held}, t \in {text}] ==
            IF t = <<>> \/ Utf8Size(t) <= B - Utf8Size(h)
            THEN [out |-> <<>>, held |-> h \o t]
            ELSE [out |-> (IF h = <<>> THEN <<>> ELSE <<h>>)
                           \o (IF Utf8Size(t) > B THEN <<t>> ELSE <<>>),
                  held |-> IF Utf8Size(t) > B THEN <<>> ELSE t]
    IN write[held, text]

\* write() system calls with these texts, made inside writer.writerow
\* ("writerow") or when the with-block closes the file ("close").
At(texts, where) ==
    Bind(texts, LAMBDA ts : [i \in 1..Len(ts) |-> [text |-> ts[i], at |-> where]])

\* The write() system calls of a save_to_csv call whose file object has a
\* buffer of B bytes, in order.  TextIOWrapper.write hands down what it holds
\* (b1) before it takes a text that would bring it above the chunk size
\* (early), and hands down what it holds from the chunk size on (now, b2);
\* the rest goes down when the file is closed (b3), and the buffer is
\* flushed.  A row that cannot be encoded raises in writerow and leaves the
\* header, if one was written, to the close.
Pieces(existed, d, B) ==
    Bind(header(existed), LAMBDA h : Bind(row(d), LAMBDA r :
        IF ~Encodable(r) THEN At(IF h = <<>> THEN <<>> ELSE <<h>>, "close")
        ELSE
        Bind(Utf8Size(h) + Utf8Size(r) > ChunkSize, LAMBDA early :
        Bind(BufferedWrite(<<>>, IF early THEN h ELSE <<>>, B), LAMBDA b1 :
        Bind(IF early THEN r ELSE h \o r, LAMBDA pending :
        Bind(Utf8Size(pending) >= ChunkSize, LAMBDA now :
        Bind(BufferedWrite(b1.held, IF now THEN pending ELSE <<>>, B), LAMBDA b2 :
        Bind(BufferedWrite(b2.held, IF now THEN <<>> ELSE pending, B), LAMBDA b3 :
            At(b1.out \o b2.out, "writerow")
            \o At(b3.out \o (IF b3.held = <<>> THEN <<>> ELSE <<b3.held>>), "close")
        ))))))))

\* The least of the buffer sizes.
SmallBuffer == CHOOSE B \in BufferSizes : \A C \in BufferSizes : B <= C

\* The buffer sizes a save_to_csv call is followed for.  A call whose header
\* and row fit in the smallest buffer makes one write() at the close
\* whatever the size: it is followed for the smallest size only.
TellingSizes(existed, d) ==
    IF Utf8Size(header(existed)) + Utf8Size(row(d)) <= SmallBuffer THEN {SmallBuffer}
    ELSE BufferSizes

\* open(self.csv_filename, 'a', ...): creates the file when it is absent, and
\* gives the file object its buffer.
open_append(p) ==
    /\ pc[p] = "open"
    /\ fs' = [fs EXCEPT !.exists = TRUE]
    /\ \E B \in TellingSizes(file_exists[p], data[p]) :
          buffer_size' = [buffer_size EXCEPT ![p] = B]
    /\ pc' = [pc EXCEPT ![p] = "write"]
    /\ UNCHANGED <<request, reqid, state, calls, data, file_exists, success, result,
                   response, applog, saved, nreq>>

\* The write() call the save_to_csv call of p makes next: the first or the
\* second of its pieces.
Piece(p) == IF pc[p] = "write" THEN 1 ELSE 2

\* 'Created new CSV file' is logged after writeheader, before any write().
Created(p) == IF pc[p] = "write" /\ ~file_exists[p] THEN <<"csv_created">> ELSE <<>>

\* 'Data saved' was logged before the write() calls before the i-th: one of
\* them was made at the close, which comes after the line.
Said(ps, i) == \E j \in 1..(i - 1) : ps[j].at = "close"

\* 'Data saved' is logged between the write() before the i-th and the i-th.
Says(ps, i, ok) == ok /\ ps[i].at = "close" /\ ~Said(ps, i)

\* A write() of the call goes through.  After the last one (or when there
\* is nothing to write) the call returns: True when writerow had succeeded,
\* 'Data saved' being logged after the write() calls of writerow and before
\* those of the close; False, through `except`, when writerow had raised.
write_close(p) ==
    /\ pc[p] \in {"write", "write_row"}
    /\ \E ps \in {Pieces(file_exists[p], data[p], buffer_size[p])},
          ok \in {Encodable(row(data[p]))} :
          IF Piece(p) < Len(ps)
          THEN /\ fs' = [fs EXCEPT !.text = @ \o ps[Piece(p)].text]
               /\ Log(p, Created(p)
                         \o (IF Says(ps, Piece(p), ok) THEN <<"csv_saved">> ELSE <<>>))
               /\ pc' = [pc EXCEPT ![p] = "write_row"]
               /\ UNCHANGED <<success, saved, buffer_size>>
          ELSE /\ fs' = [fs EXCEPT !.text = @ \o (IF ps = <<>> THEN <<>> ELSE ps[Piece(p)].text)]
               /\ success' = [success EXCEPT ![p] = ok]
               /\ Returned(p, ok)
               /\ Log(p, Created(p)
                         \o (IF ok /\ ~Said(ps, Piece(p)) THEN <<"csv_saved">> ELSE <<>>)
                         \o (IF ok THEN <<>> ELSE <<"csv_error">>))
               /\ buffer_size' = [buffer_size EXCEPT ![p] = 0]
               /\ pc' = [pc EXCEPT ![p] = "sv_return"]
    /\ UNCHANGED <<request, reqid, state, calls, data, file_exists, result, response, nreq>>

\* Sizes the file cannot grow past when a write() fails (disk full, a file
\* size limit): no room at all, and room for 40 bytes.
FileLimits == {0, 40}

\* The largest k in lo..hi with the first k characters of s within n bytes
\* (the first lo characters are).
RECURSIVE TakeLen(_, _, _, _)
TakeLen(s, lo, hi, n) ==
    IF lo = hi THEN lo
    ELSE Bind((lo + hi + 1) \div 2, LAMBDA mid :
            IF Utf8Size(SubSeq(s, 1, mid)) <= n THEN TakeLen(s, mid, hi, n)
            ELSE TakeLen(s, lo, mid - 1, n))

\* s.encode('utf-8')[:n], for n below the size of s: the characters that fit
\* whole, then the first bytes of the character the cut goes through.
Take(s, n) ==
    IF n <= 0 THEN <<>>
    ELSE Bind(s, LAMBDA t : Bind(TakeLen(t, 0, Len(t), n), LAMBDA k :
            SubSeq(t, 1, k)
            \o (IF k < Len(t) THEN SubSeq(Utf8(t[k + 1]), 1, n - Utf8Size(SubSeq(t, 1, k)))
                ELSE <<>>)))

\* A write() that took the bytes that fit of a text larger than the buffer
\* of B bytes, where the buffer can hold the rest: BufferedWriter.write keeps
\* the rest and returns, and the write() that fails is made at the close.
Deferred(text, room, B) == room > 0 /\ Utf8Size(text) > B /\ Utf8Size(text) - room <= B

\* A write() of the call fails (disk full, file size limit): the bytes of
\* the text that fit have reached the file, the exception leaves the
\* with-block and `except` returns False.
write_error(p) ==
    /\ pc[p] \in {"write", "write_row"}
    /\ \E ps \in {Pieces(file_exists[p], data[p], buffer_size[p])},
          ok \in {Encodable(row(data[p]))} :
          /\ Piece(p) <= Len(ps)
          /\ \E size \in {Utf8Size(fs.text)}, lim \in FileLimits :
                /\ size + Utf8Size(ps[Piece(p)].text) > lim
                /\ fs' = [fs EXCEPT !.text = @ \o Take(ps[Piece(p)].text, lim - size)]
                /\ Log(p, Created(p)
                          \o (IF \/ Says(ps, Piece(p), ok)
                                 \/ /\ ok /\ ~Said(ps, Piece(p))
                                    /\ Deferred(ps[Piece(p)].text, lim - size, buffer_size[p])
                              THEN <<"csv_saved">> ELSE <<>>)
                          \o <<"csv_error">>)
    /\ success' = [success EXCEPT ![p] = FALSE]
    /\ Returned(p, FALSE)
    /\ buffer_size' = [buffer_size EXCEPT ![p] = 0]
    /\ pc' = [pc EXCEPT ![p] = "sv_return"]
    /\ UNCHANGED <<request, reqid, state, calls, data, file_exists, result, response, nreq>>

\* ------------------------------------------------------------------ direct callers

\* Fields a caller of save_to_csv may pass: empty, with a delimiter, with a
\* quote and a line break.
FieldSamples == { <<>>, <<"a", ",", "b">>, <<"\"", "\r", "\n", "c">> }

\* Dicts a caller may pass, one that lacks two of the keys and one whose
\* transcript cannot be encoded included.
Records ==
    { [transcript |-> a, summary |-> b, sentiment |-> <<"o", "k">>] :
        a \in FieldSamples, b \in FieldSamples }
    \cup { [transcript |-> <<"x">>],
           [transcript |-> <<"x", Surrogate>>, summary |-> <<"s">>, sentiment |-> <<"o", "k">>] }

\* DataManager().save_to_csv(d), called directly.
direct_call(p) ==
    /\ pc[p] = "idle"
    /\ nreq < MaxAppends
    /\ \E d \in Records : data' = [data EXCEPT ![p] = d]
    /\ Fresh(p, <<>>)
    /\ pc' = [pc EXCEPT ![p] = "isfile"]
    /\ UNCHANGED <<response, applog, fs, saved>>

\* save_to_csv returned to a direct caller.
direct_return(p) ==
    /\ pc[p] = "sv_return"
    /\ state[p] = EmptyDict
    /\ pc' = [pc EXCEPT ![p] = "idle"]
    /\ UNCHANGED <<request, reqid, state, calls, data, file_exists, buffer_size, success, result,
                   response, applog, fs, saved, nreq>>

\* ------------------------------------------------------------------ specifications

Step(p) ==
    \/ api_reject(p)
    \/ api_init_error(p)
    \/ api_accept(p)
    \/ build_graph(p)
    \/ summary_node(p)
    \/ sentiment_node(p)
    \/ save_node(p)
    \/ isfile(p)
    \/ open_append(p)
    \/ open_error(p)
    \/ write_close(p)
    \/ write_error(p)
    \/ save_node_return(p)
    \/ workflow_return(p)
    \/ workflow_error(p)
    \/ api_respond(p)

\* One server process: the async handler calls the analyzer synchronously, so
\* the event loop serves one request at a time.
Next == Step(1)

Spec == Init /\ [][Next]_vars

\* Several server processes (workers) appending to the one log file.
NextWorkers == \E p \in Procs : Step(p)

SpecWorkers == Init /\ [][NextWorkers]_vars

\* One caller making sequential save_to_csv calls on a log that does not exist.
NextCsv ==
    \/ direct_call(1)
    \/ isfile(1)
    \/ open_append(1)
    \/ open_error(1)
    \/ write_close(1)
    \/ write_error(1)
    \/ direct_return(1)

SpecCsv == Init /\ [][NextCsv]_vars

\* The steps of one analyze_transcript call, from its first line to its return.
RunStep(p) ==
    \/ build_graph(p)
    \/ summary_node(p)
    \/ sentiment_node(p)
    \/ save_node(p)
    \/ isfile(p)
    \/ open_append(p)
    \/ open_error(p)
    \/ write_close(p)
    \/ write_error(p)
    \/ save_node_return(p)
    \/ workflow_return(p)
    \/ workflow_error(p)

\* The server up to the end of its MaxRuns-th request.
NextLive ==
    \/ nreq < MaxRuns /\ api_reject(1)
    \/ nreq < MaxRuns /\ api_init_error(1)
    \/ nreq < MaxRuns /\ api_accept(1)
    \/ RunStep(1)
    \/ api_respond(1)

\* The handler's thread keeps running while a call is in progress: the code
\* between two blocking calls is straight-line, and every inference call and
\* file operation is taken to return or to raise.

SpecLive == Init /\ [][NextLive]_vars /\ WF_vars(RunStep(1))

\* ------------------------------------------------------------------ observations

Has(seq, e) == \E i \in 1..Len(seq) : seq[i] = e

Last(seq) == seq[Len(seq)]

\* The node a logger line is the last line of, "" for the other lines.
NodeOf(line) ==
    CASE line \in {"summary_ok", "summary_error"} -> "summarize"
      [] line \in {"sentiment_ok", "sentiment_error"} -> "analyze_sentiment"
      [] line \in {"save_ok", "save_failed"} -> "save_results"
      [] OTHER -> ""

\* The first of the lines is 'Summary generated successfully' of a run of
\* summary_node that went on to its `except`: the node ends with the next line.
MidNode(lines) == Len(lines) > 1 /\ lines[1] = "summary_ok" /\ lines[2] = "summary_error"

RECURSIVE NodesIn(_)
NodesIn(lines) ==
    IF lines = <<>> THEN <<>>
    ELSE (IF NodeOf(Head(lines)) = "" \/ MidNode(lines) THEN <<>> ELSE <<NodeOf(Head(lines))>>)
         \o NodesIn(Tail(lines))

\* The nodes the invocation of p has completed, in order of completion.
Nodes(p) == NodesIn(applog[p])

Pipeline == <<"summarize", "analyze_sentiment", "save_results">>

\* Control points of save_node and of the save_to_csv call it makes.
InSave == {"isfile", "open", "write", "write_row", "sv_return"}

\* p is inside workflow.invoke.
InWorkflow(p) == state[p] # EmptyDict /\ pc[p] \notin {"idle", "build", "returned", "responded"}

Completed(p) == Has(applog[p], "workflow_completed")

FailedTop(p) == Has(applog[p], "workflow_failed")

\* The save_to_csv calls of the invocation p is serving that have returned.
SavesOf(p) == { i \in 1..Len(saved) : saved[i].req = reqid[p] }

\* ------------------------------------------------------------------ claims

\* C1: within one invocation of analyze_transcript, Summarize has completed
\* (once) when AnalyzeSentiment starts, both have completed (once each, in
\* that order) when Persist starts and while it runs, and a run that ends on
\* the normal path has completed the three steps in order, each exactly once.
C1_StepOrder ==
    \A p \in Procs :
        /\ InWorkflow(p) /\ pc[p] = "summarize" => Nodes(p) = <<>>
        /\ InWorkflow(p) /\ pc[p] = "analyze_sentiment" => Nodes(p) = SubSeq(Pipeline, 1, 1)
        /\ InWorkflow(p) /\ pc[p] \in {"save_results"} \cup InSave
              => Nodes(p) = SubSeq(Pipeline, 1, 2)
        /\ InWorkflow(p) /\ pc[p] = "END" => Nodes(p) = Pipeline
        /\ Completed(p) => Nodes(p) = Pipeline

C1_Witness ==
    \E p \in Procs : pc[p] = "returned" /\ Completed(p) /\ Nodes(p) = Pipeline

\* C2: for every transcript that is non-empty and at least MinLength long,
\* the record analyze_transcript returns has a non-empty transcript, summary
\* and sentiment.
C2_AllFieldsNonEmpty ==
    \A p \in Procs :
        pc[p] = "returned" /\ request[p] # <<>> /\ Len(request[p]) >= MinLength
            => /\ result[p]["transcript"] # <<>>
               /\ result[p]["summary"] # <<>>
               /\ result[p]["sentiment"] # <<>>

\* C3: a request whose run ended in the top-level failure branch is answered
\* with a server error.
C3_FailureIsServerError ==
    \A p \in Procs :
        pc[p] = "responded" /\ FailedTop(p) => response[p].status = 500

\* A transcript the boundary is to reject: empty, whitespace only, or with a
\* trimmed length below MinLength.
Rejectable(t) ==
    \/ t = <<>>
    \/ \A i \in 1..Len(t) : t[i] \in Whitespace
    \/ Len(strip(t)) < MinLength

\* C4: a request with a rejectable transcript is answered 400 at once: the
\* workflow is never started for it, no inference call is issued, save_to_csv
\* is not called and nothing of it reaches the log.
C4_RejectedBeforeRun ==
    \A p \in Procs :
        reqid[p] > 0 /\ Rejectable(request[p])
            => /\ pc[p] = "responded"
               /\ response[p].status = 400
               /\ applog[p] = <<"api_requested">>
               /\ state[p] = EmptyDict
               /\ calls[p] = 0
               /\ data[p] = EmptyDict
               /\ SavesOf(p) = {}

\* A transcript of MinLength characters or more that is rejected because its
\* trimmed length is below MinLength.
C4_Witness ==
    \E p \in Procs :
        /\ pc[p] = "responded" /\ response[p].status = 400
        /\ Len(request[p]) >= MinLength /\ strip(request[p]) # <<>>
        /\ Rejectable(request[p])

\* C5: when the inference call of Summarize fails, the step stores exactly the
\* fallback summary and control goes on to AnalyzeSentiment (the error does not
\* reach the top-level handler); a run that then ends on the normal path has
\* executed AnalyzeSentiment and Persist after it and returns the fallback.
C5_SummaryFallback ==
    \A p \in Procs :
        Has(applog[p], "summary_error")
            => /\ state[p]["summary"] = SummaryFallback
               /\ Last(applog[p]) = "summary_error" => pc[p] = "analyze_sentiment"
               /\ Completed(p) => /\ Nodes(p) = Pipeline
                                  /\ calls[p] = 2
                                  /\ data[p] # EmptyDict
                                  /\ result[p]["summary"] = SummaryFallback

C5_Witness ==
    \E p \in Procs :
        /\ pc[p] = "returned" /\ Completed(p) /\ Has(applog[p], "summary_error")
        /\ result[p]["summary"] = SummaryFallback

\* The row of a saved dict: its three values, '' for a missing one.
ExpectedRow(d) ==
    <<DictGet(d, "transcript", <<>>), DictGet(d, "summary", <<>>), DictGet(d, "sentiment", <<>>)>>

\* C6 (state part): when only the inference call of AnalyzeSentiment fails,
\* the step stores exactly the fallback label; the record of a normal return
\* carries the state's summary and the fallback label; and after a successful
\* Persist the log read back has a row whose Summary column, the second, is
\* the state's summary.
C6_Inv ==
    \A p \in Procs :
        ~Has(applog[p], "summary_error") /\ Has(applog[p], "sentiment_error")
            => /\ state[p]["sentiment"] = SentimentFallback
               /\ Completed(p) => /\ result[p]["summary"] = state[p]["summary"]
                                  /\ result[p]["sentiment"] = SentimentFallback
               /\ Has(applog[p], "save_ok")
                    => /\ \E i \in SavesOf(p) : saved[i].data["summary"] = state[p]["summary"]
                       /\ \E rows \in {CsvRows(fs.text)} :
                             \E k \in 1..Len(rows) :
                                /\ Len(rows[k]) >= 2
                                /\ rows[k][2] = state[p]["summary"]

\* C6 (step part): once Summarize has completed, no step of the same
\* invocation changes the summary it stored.
C6_Frame ==
    \A p \in Procs :
        Nodes(p) # <<>> /\ reqid'[p] = reqid[p] => state'[p]["summary"] = state[p]["summary"]

\* C6: if the inference call fails for AnalyzeSentiment only, the step returns
\* exactly "Neutral", and the summary in the returned record and in the
\* persisted row is the value the Summarize step produced.
C6_SentimentFallback == []C6_Inv /\ [][C6_Frame]_vars

\* C7: when save_to_csv fails it returns False to save_node instead of
\* raising: save_node logs the failure and the workflow goes on to END; the
\* record of the normal return is then the transcript with the summary and
\* the sentiment of the two inference steps, not the degraded record.
C7_PersistFailureNotFatal ==
    \A p \in Procs :
        state[p] # EmptyDict /\ Has(applog[p], "csv_error")
            => /\ success[p] = FALSE
               /\ \A i \in SavesOf(p) : ~saved[i].ok
               /\ Last(applog[p]) = "csv_error" => pc[p] = "sv_return"
               /\ pc[p] # "sv_return" => Has(applog[p], "save_failed")
               /\ Last(applog[p]) = "save_failed" => pc[p] = "END"
               /\ Completed(p)
                    => /\ result[p] = [transcript |-> request[p],
                                       summary |-> state[p]["summary"],
                                       sentiment |-> state[p]["sentiment"]]
                       /\ result[p]["summary"] \in LLMSummaries \cup {SummaryFallback}
                       /\ result[p]["sentiment"] \in LLMSentiments \cup {SentimentFallback}
                       /\ result[p] # degraded(request[p])

C7_Witness ==
    \E p \in Procs :
        /\ pc[p] = "returned" /\ Completed(p) /\ Has(applog[p], "save_failed")
        /\ result[p]["summary"] \in LLMSummaries \ {<<>>}
        /\ result[p]["sentiment"] \in LLMSentiments \ {<<>>}

AllOk == \A i \in 1..Len(saved) : saved[i].ok

\* C8: starting without a log file, after N >= 1 sequential save_to_csv calls
\* that all returned True, the rows of the file are the header row
\* (Transcript, Summary, Sentiment) and then the N saved records in the order
\* of the calls, each with its columns in that order.
C8_HeaderThenRows ==
    (\A p \in Procs : pc[p] = "idle") /\ Len(saved) >= 1 /\ AllOk
        => CsvRows(fs.text)
             = <<fieldnames>> \o [i \in 1..Len(saved) |-> ExpectedRow(saved[i].data)]

\* Three appends, one of a field that needs quoting, one of a dict that lacks keys.
C8_Witness ==
    /\ pc[1] = "idle" /\ Len(saved) >= 3 /\ AllOk
    /\ \E i \in 1..Len(saved) : NeedsQuote(ExpectedRow(saved[i].data)[1])
    /\ \E i \in 1..Len(saved) : DOMAIN saved[i].data # {"transcript", "summary", "sentiment"}

\* C9 as stated: a run that ended in the top-level failure branch returns the
\* degraded record, and its invocation neither called save_to_csv nor
\* appended a row.
C9_NoAppendWhenFailed ==
    \A p \in Procs :
        FailedTop(p)
            => /\ result[p] = degraded(request[p])
               /\ data[p] = EmptyDict
               /\ SavesOf(p) = {}

\* C9 as amended: a run that ended in the top-level failure branch returns
\* the degraded record; the branch itself makes no save_to_csv call, so the
\* invocation has made none when the failure came before the Persist step,
\* and exactly the one of the Persist step when it came after it.
C9_FailureBranch ==
    \A p \in Procs :
        FailedTop(p)
            => /\ pc[p] \in {"returned", "responded"}
               /\ result[p] = degraded(request[p])
               /\ ~Has(Nodes(p), "save_results") => data[p] = EmptyDict /\ SavesOf(p) = {}
               /\ Has(Nodes(p), "save_results") => Cardinality(SavesOf(p)) = 1

\* A failure after AnalyzeSentiment and before Persist.
C9_Witness ==
    \E p \in Procs :
        /\ pc[p] = "returned" /\ FailedTop(p)
        /\ Nodes(p) = SubSeq(Pipeline, 1, 2)
        /\ result[p] = degraded(request[p])

IsOk(e) == e.ok

\* The rows of a text without its first row when that is the header row.
DataRows(rows) == IF rows # <<>> /\ Head(rows) = fieldnames THEN Tail(rows) ELSE rows

\* C10: under every interleaving of concurrent invocations, the rows of the
\* log other than its first header row are, one for one and in the order of
\* the appends, the records of the save_to_csv calls that succeeded; the
\* header row does not occur again.
C10_RowsAreAnalyses ==
    LET done == SelectSeq(saved, IsOk)
    IN DataRows(CsvRows(fs.text)) = [i \in 1..Len(done) |-> ExpectedRow(done[i].data)]

\* C11 (state part): an invocation that returned on the normal path after
\* save_to_csv answered True has made exactly one save_to_csv call, of a dict
\* whose row is the transcript, summary and sentiment of the record it
\* returned, and that row is the last row of the log.
C11_Inv ==
    \A p \in Procs :
        Completed(p) /\ Has(applog[p], "save_ok")
            => /\ \E i \in SavesOf(p) :
                    /\ SavesOf(p) = {i}
                    /\ saved[i].ok
                    /\ ExpectedRow(saved[i].data)
                         = <<result[p]["transcript"], result[p]["summary"],
                             result[p]["sentiment"]>>
               /\ CsvRows(fs.text) # <<>>
               /\ Last(CsvRows(fs.text))
                    = <<result[p]["transcript"], result[p]["summary"], result[p]["sentiment"]>>

\* C11 (step part): the step with which save_to_csv ends to answer True has
\* added exactly one data row to the log, the row of the dict it was called
\* with, at the end.
C11_Step ==
    \A p \in Procs :
        pc[p] \in {"write", "write_row"} /\ reqid'[p] = reqid[p] /\ success'[p]
            => DataRows(CsvRows(fs'.text))
                 = Append(DataRows(CsvRows(fs.text)), ExpectedRow(data[p]))

\* C11: when analyze_transcript completes on the normal path and the Persist
\* step succeeded, the invocation appended exactly one data row to the log,
\* and its Transcript, Summary and Sentiment are those of the returned record.
C11_OneRowPerRun == []C11_Inv /\ [][C11_Step]_vars

\* The inference steps the invocation of p has completed.
Assigned(p) == SelectSeq(Nodes(p), LAMBDA n : n \in {"summarize", "analyze_sentiment"})

\* Each field is assigned at most once, the summary first, by one inference
\* call each.
C12_Order ==
    \A p \in Procs :
        /\ Assigned(p) \in {<<>>, SubSeq(Pipeline, 1, 1), SubSeq(Pipeline, 1, 2)}
        /\ state[p] # EmptyDict => calls[p] = Len(Assigned(p))

\* C12 as stated: each field is assigned once, the summary before the
\* sentiment, and the record returned to the caller carries every field with
\* the value that was assigned to it.
C12_AssignedOnce ==
    /\ C12_Order
    /\ \A p \in Procs :
          pc[p] = "returned"
              => /\ Has(Assigned(p), "summarize")
                      => result[p]["summary"] = state[p]["summary"]
                 /\ Has(Assigned(p), "analyze_sentiment")
                      => result[p]["sentiment"] = state[p]["sentiment"]

\* C12 as amended (state part): each field is assigned once, the summary
\* first; the record of a normal return carries the assigned values, the
\* record of the top-level failure branch carries the two fixed values
\* whatever was assigned.
C12_Inv ==
    /\ C12_Order
    /\ \A p \in Procs :
          /\ Completed(p)
                => /\ Assigned(p) = SubSeq(Pipeline, 1, 2)
                   /\ result[p]["summary"] = state[p]["summary"]
                   /\ result[p]["sentiment"] = state[p]["sentiment"]
          /\ FailedTop(p)
                => /\ result[p]["summary"] = WorkflowFallback
                   /\ result[p]["sentiment"] = SentimentFallback

\* C12 as amended (step part): within one invocation the summary of the
\* workflow state changes only in the Summarize step and the sentiment only
\* in the AnalyzeSentiment step, each before it was assigned; the transcript
\* never changes.
C12_Frame ==
    \A p \in Procs :
        state[p] # EmptyDict /\ reqid'[p] = reqid[p]
            => /\ state'[p]["transcript"] = state[p]["transcript"]
               /\ state'[p]["summary"] # state[p]["summary"]
                    => pc[p] = "summarize" /\ Assigned(p) = <<>>
               /\ state'[p]["sentiment"] # state[p]["sentiment"]
                    => pc[p] = "analyze_sentiment" /\ Assigned(p) = SubSeq(Pipeline, 1, 1)

C12_AssignedOnceInState == []C12_Inv /\ [][C12_Frame]_vars

\* A failure after both fields were assigned: the returned summary is not
\* the one the Summarize step stored.
C12_Witness ==
    \E p \in Procs :
        /\ pc[p] = "returned" /\ FailedTop(p)
        /\ Assigned(p) = SubSeq(Pipeline, 1, 2)
        /\ state[p]["summary"] \in LLMSummaries \ {<<>>}
        /\ result[p]["summary"] # state[p]["summary"]

\* C13 (state part): what analyze_transcript hands back is a record of the
\* transcript it was called with, a summary and a sentiment, on the normal
\* path and in the failure branch alike.
C13_ReturnsRecord ==
    \A p \in Procs :
        pc[p] = "returned"
            => /\ DOMAIN result[p] = {"transcript", "summary", "sentiment"}
               /\ result[p]["transcript"] = request[p]
               /\ Completed(p) \/ FailedTop(p)

\* C13: every call of analyze_transcript eventually returns a record to its
\* caller, whatever the outcomes of the two inference calls and of the write
\* to the log, and wherever an unexpected exception is raised.
C13_Terminates ==
    /\ []C13_ReturnsRecord
    /\ \A p \in Procs : (pc[p] = "build") ~> (pc[p] = "returned")

\* A return on the normal path after both inference calls and the log write
\* failed.
C13_Witness ==
    \E p \in Procs :
        /\ pc[p] = "returned" /\ Completed(p)
        /\ Has(applog[p], "summary_error") /\ Has(applog[p], "sentiment_error")
        /\ Has(applog[p], "save_failed")

\* a is an initial part of b.
IsPrefix(a, b) == Len(a) <= Len(b) /\ SubSeq(b, 1, Len(a)) = a

\* C14: no step of any request or save_to_csv call, successful or failed,
\* removes the log file, changes a character of it or changes, removes or
\* moves a row of it: a step that touches the file leaves the text and the
\* rows it had as an initial part of the text and the rows it has after.
C14_AppendOnly ==
    [][fs' # fs => /\ fs.exists => fs'.exists
                   /\ IsPrefix(fs.text, fs'.text)
                   /\ IsPrefix(CsvRows(fs.text), CsvRows(fs'.text))]_vars

====
